---- MODULE Spec2Model ----
(***************************************************************************)
(* Model of fourier.py: the two truncated Fourier series evaluators        *)
(* (complex_fourier, real_fourier) and the input form (check_input,        *)
(* read_input, main).                                                      *)
(*                                                                         *)
(* Numbers.  A scalar is a pair <<re, im>> of integers (a real number has  *)
(* im = 0).  Angles are counted in quarter turns: 2*pi is Turn = 4, so the *)
(* angular frequency w = 2*pi/T is Turn \div T for the periods T that      *)
(* divide Turn, and cos, sin and exp take the exact values they have at    *)
(* multiples of pi/2.  Floating-point rounding is not modelled: "equal     *)
(* within floating-point tolerance" is equality here.  T is a Python float *)
(* (the docstrings' "double"), so 2*pi/0 raises ZeroDivisionError.         *)
(***************************************************************************)
EXTENDS Integers, Sequences, FiniteSets, TLC

VARIABLES c, a, b, N, t, T, cf, rf, values, gui

vars == <<c, a, b, N, t, T, cf, rf, values, gui>>
evalVars == <<c, a, b, N, t, T, cf, rf>>
guiVars == <<values, gui>>

(***************************************************************************)
(* Bounds of the model.                                                    *)
(***************************************************************************)
MaxN == 2
MaxLen == 2
MaxNConst == 5

Points == {0, 1, 3}
Periods == {-4, 0, 2, 4}

(***************************************************************************)
(* Scalar and elementwise arithmetic (Python complex, numpy arrays).       *)
(***************************************************************************)
Turn == 4

CAdd(x, y) == <<x[1] + y[1], x[2] + y[2]>>
CMul(x, y) == <<x[1] * y[1] - x[2] * y[2], x[1] * y[2] + x[2] * y[1]>>
\* x/2, exact on the even values it is applied to
Half(x) == <<x[1] \div 2, x[2] \div 2>>

Cos(q) == CASE q % Turn = 0 -> 1 [] q % Turn = 2 -> -1 [] OTHER -> 0
Sin(q) == CASE q % Turn = 1 -> 1 [] q % Turn = 3 -> -1 [] OTHER -> 0
Exp(q) == <<Cos(q), Sin(q)>>

Omega(period) == Turn \div period

Zeros(tt) == [i \in 1..Len(tt) |-> <<0, 0>>]
AddScalar(s, v) == [i \in DOMAIN s |-> CAdd(s[i], v)]

\* Faulty variant: every point evaluated at the first sample point.
PhaseFirst(n, w, tt) == [i \in 1..Len(tt) |-> n * w * tt[1]]
Phase(n, w, tt) == [i \in 1..Len(tt) |-> n * w * tt[i]]

\* Faulty variant: exp(exponent) where exp(-exponent) is meant.
NegPhaseSame(th) == th
NegPhase(th) == [i \in DOMAIN th |-> -th[i]]

CfAccumulate(s, n, w, tt, cn, cnn) ==
    LET exponent == Phase(n, w, tt)
        minus == NegPhase(exponent)
        s1 == [i \in DOMAIN s |-> CAdd(s[i], CMul(cn, Exp(exponent[i])))]
    IN  [i \in DOMAIN s1 |-> CAdd(s1[i], CMul(cnn, Exp(minus[i])))]

RfAccumulate(s, n, w, tt, an, bn) ==
    LET argument == Phase(n, w, tt)
        s1 == [i \in DOMAIN s |-> CAdd(s[i], CMul(an, <<Cos(argument[i]), 0>>))]
    IN  [i \in DOMAIN s1 |-> CAdd(s1[i], CMul(bn, <<Sin(argument[i]), 0>>))]

\* Faulty variant: the imaginary part is kept.
RealPartKeepImag(s) == s
RealPart(s) == [i \in DOMAIN s |-> <<s[i][1], 0>>]

(***************************************************************************)
(* Coefficient functions.  A coefficient function maps an index to an      *)
(* outcome: a number, an exception raised by the function, or a value that *)
(* is not a number.  The functions are built as main builds them: one      *)
(* value at index 0 and one expression in n for the other indices.         *)
(***************************************************************************)
Num(v) == [kind |-> "num", v |-> v]
Raises == [kind |-> "raise", v |-> <<0, 0>>]
NonNumeric == [kind |-> "nonnum", v |-> <<0, 0>>]

Term(e, n) ==
    CASE e = "zero" -> <<0, 0>>
      [] e = "one" -> <<1, 0>>
      [] e = "2n" -> <<2 * n, 0>>
      [] e = "jn" -> <<0, n>>
      [] e = "1+jn" -> <<1, n>>
      [] e = "j" -> <<0, 1>>

Lambda(v0, e, D) == [n \in D |-> Num(IF n # 0 THEN Term(e, n) ELSE v0)]
LambdaB(e, D) == [n \in D |-> Num(Term(e, n))]

FailAt(f, k, how) == [n \in DOMAIN f |-> IF n = k THEN how ELSE f[n]]

Lookup(call) ==
    CASE call[1] = "c" -> c[call[2]]
      [] call[1] = "a" -> a[call[2]]
      [] call[1] = "b" -> b[call[2]]

(***************************************************************************)
(* One call frame per evaluator.                                           *)
(***************************************************************************)
NoExc == [type |-> "none", call |-> <<"", 0>>]
Frame(pc) == [pc |-> pc, n |-> 0, w |-> 0, sum |-> <<>>, calls |-> <<>>,
              result |-> <<>>, exc |-> NoExc]

\* The calls of the coefficient functions each step makes, in order.
CfInitCalls == << <<"c", 0>> >>
\* Faulty variant: c(n) fetched for both terms.
CfTermCallsSame(n) == << <<"c", n>>, <<"c", n>> >>
CfTermCalls(n) == << <<"c", n>>, <<"c", -n>> >>
\* Faulty variant: b(0) fetched with a(0).
RfInitCallsWithB == << <<"a", 0>>, <<"b", 0>> >>
RfInitCalls == << <<"a", 0>> >>
RfTermCalls(n) == << <<"a", n>>, <<"b", n>> >>

\* Position of the first call that raises (0: none); the calls made are those up
\* to it, since the exception leaves the evaluator at once.
FirstRaise(cs) ==
    IF \E k \in 1..Len(cs) : Lookup(cs[k]).kind = "raise"
    THEN CHOOSE k \in 1..Len(cs) :
            /\ Lookup(cs[k]).kind = "raise"
            /\ \A m \in 1..(k - 1) : Lookup(cs[m]).kind # "raise"
    ELSE 0
Made(cs) == IF FirstRaise(cs) = 0 THEN cs ELSE SubSeq(cs, 1, FirstRaise(cs))

\* The exception a step ends in (NoExc: none): the coefficient function's own,
\* or the TypeError of the first arithmetic on a value that is not a number.
Failure(cs) ==
    IF FirstRaise(cs) # 0
    THEN [type |-> "CoefficientError", call |-> cs[FirstRaise(cs)]]
    ELSE IF \E k \in 1..Len(cs) : Lookup(cs[k]).kind = "nonnum"
         THEN [type |-> "TypeError",
               call |-> cs[CHOOSE k \in 1..Len(cs) :
                              /\ Lookup(cs[k]).kind = "nonnum"
                              /\ \A m \in 1..(k - 1) : Lookup(cs[m]).kind # "nonnum"]]
         ELSE NoExc

\* An exception leaves the function: its locals are gone, nothing is returned.
\* Faulty variant: the exception is caught and the partial sum returned.
PropagateSwallow(fr, cs, exc) ==
    [fr EXCEPT !.pc = "returned", !.calls = fr.calls \o cs,
               !.result = RealPart(fr.sum)]
Propagate(fr, cs, exc) ==
    [fr EXCEPT !.pc = "raised", !.calls = fr.calls \o cs, !.exc = exc,
               !.sum = <<>>]

\* Faulty variant: range(1, N+2).
LoopDoneLate(fr) == fr.n > N + 1
LoopDone(fr) == fr.n > N

(***************************************************************************)
(* complex_fourier                                                         *)
(***************************************************************************)
\* line 20
CF_Omega ==
    /\ cf.pc = "called"
    /\ cf' = IF T = 0
             THEN Propagate(cf, <<>>, [type |-> "ZeroDivisionError", call |-> <<"", 0>>])
             ELSE [cf EXCEPT !.pc = "init", !.w = Omega(T)]
    /\ UNCHANGED <<c, a, b, N, t, T, rf, values, gui>>

\* lines 22-24
CF_Init ==
    /\ cf.pc = "init"
    /\ LET cs == CfInitCalls
       IN  cf' = IF Failure(cs) # NoExc
                 THEN Propagate(cf, Made(cs), Failure(cs))
                 ELSE [cf EXCEPT !.pc = "loop", !.n = 1,
                                 !.calls = cf.calls \o cs,
                                 !.sum = AddScalar(Zeros(t), Lookup(cs[1]).v)]
    /\ UNCHANGED <<c, a, b, N, t, T, rf, values, gui>>

\* lines 26-34, one iteration
CF_Loop ==
    /\ cf.pc = "loop"
    /\ ~LoopDone(cf)
    /\ LET cs == CfTermCalls(cf.n)
       IN  cf' = IF Failure(cs) # NoExc
                 THEN Propagate(cf, Made(cs), Failure(cs))
                 ELSE [cf EXCEPT !.n = cf.n + 1,
                                 !.calls = cf.calls \o cs,
                                 !.sum = CfAccumulate(cf.sum, cf.n, cf.w, t,
                                                      Lookup(cs[1]).v, Lookup(cs[2]).v)]
    /\ UNCHANGED <<c, a, b, N, t, T, rf, values, gui>>

\* line 36
CF_Return ==
    /\ cf.pc = "loop"
    /\ LoopDone(cf)
    /\ cf' = [cf EXCEPT !.pc = "returned", !.result = RealPart(cf.sum)]
    /\ UNCHANGED <<c, a, b, N, t, T, rf, values, gui>>

(***************************************************************************)
(* real_fourier                                                            *)
(***************************************************************************)
\* line 52
RF_Omega ==
    /\ rf.pc = "called"
    /\ rf' = IF T = 0
             THEN Propagate(rf, <<>>, [type |-> "ZeroDivisionError", call |-> <<"", 0>>])
             ELSE [rf EXCEPT !.pc = "init", !.w = Omega(T)]
    /\ UNCHANGED <<c, a, b, N, t, T, cf, values, gui>>

\* lines 54-56
RF_Init ==
    /\ rf.pc = "init"
    /\ LET cs == RfInitCalls
       IN  rf' = IF Failure(cs) # NoExc
                 THEN Propagate(rf, Made(cs), Failure(cs))
                 ELSE [rf EXCEPT !.pc = "loop", !.n = 1,
                                 !.calls = rf.calls \o cs,
                                 !.sum = AddScalar(Zeros(t), Half(Lookup(cs[1]).v))]
    /\ UNCHANGED <<c, a, b, N, t, T, cf, values, gui>>

\* lines 58-66, one iteration
RF_Loop ==
    /\ rf.pc = "loop"
    /\ ~LoopDone(rf)
    /\ LET cs == RfTermCalls(rf.n)
       IN  rf' = IF Failure(cs) # NoExc
                 THEN Propagate(rf, Made(cs), Failure(cs))
                 ELSE [rf EXCEPT !.n = rf.n + 1,
                                 !.calls = rf.calls \o cs,
                                 !.sum = RfAccumulate(rf.sum, rf.n, rf.w, t,
                                                      Lookup(cs[1]).v, Lookup(cs[2]).v)]
    /\ UNCHANGED <<c, a, b, N, t, T, cf, values, gui>>

\* line 68
RF_Return ==
    /\ rf.pc = "loop"
    /\ LoopDone(rf)
    /\ rf' = [rf EXCEPT !.pc = "returned", !.result = rf.sum]
    /\ UNCHANGED <<c, a, b, N, t, T, cf, values, gui>>

(***************************************************************************)
(* Inputs of one evaluator call.                                           *)
(***************************************************************************)
Idx(m) == (-m)..m
Domains == UNION {[1..m -> Points] : m \in 0..MaxLen}

\* Values at index 0; those of a are even, so that a_0/2 is exact in integers.
Values0 == {<<0, 0>>, <<2, 0>>, <<2, 1>>}
TermsC == {"zero", "jn", "j"}
Values0A == {<<0, 0>>, <<2, 0>>}
TermsA == {"zero", "2n"}
TermsB == {"zero", "one"}
Hows == {Raises, NonNumeric}

\* f itself, f failing at one index, f failing at n and at -n in the two ways.
WithFailure(f) ==
    {f} \cup {FailAt(f, k, how) : k \in (DOMAIN f) \cap Idx(MaxN), how \in Hows}
        \cup {FailAt(FailAt(f, 1, h1), -1, h2) : h1 \in Hows, h2 \in Hows \cup {f[1]}}

CFunctions ==
    UNION {WithFailure(Lambda(v0, e, Idx(MaxN + 1))) : v0 \in Values0, e \in TermsC}
AFunctions == {Lambda(v0, e, 0..(MaxN + 1)) : v0 \in Values0A, e \in TermsA}
BFunctions == {LambdaB(e, 0..(MaxN + 1)) : e \in TermsB}
ABFunctions ==
    UNION {   {<<fa, fb>>}
           \cup {<<g, fb>> : g \in WithFailure(fa)}
           \cup {<<fa, g>> : g \in WithFailure(fb)} : fa \in AFunctions, fb \in BFunctions}

NoFunction == [n \in {0} |-> Num(<<0, 0>>)]

GuiIdle == [pc |-> "idle"]

InitArgs ==
    /\ N \in -1..MaxN
    /\ t \in Domains
    /\ T \in Periods

Init ==
    /\ InitArgs
    /\ \/ /\ c \in CFunctions
          /\ a = NoFunction /\ b = NoFunction
          /\ cf = Frame("called") /\ rf = Frame("idle")
       \/ /\ c = NoFunction
          /\ \E ab \in ABFunctions : a = ab[1] /\ b = ab[2]
          /\ cf = Frame("idle") /\ rf = Frame("called")
    /\ values = <<>> /\ gui = GuiIdle

NextEval ==
    \/ CF_Omega \/ CF_Init \/ CF_Loop \/ CF_Return
    \/ RF_Omega \/ RF_Init \/ RF_Loop \/ RF_Return

Spec == Init /\ [][NextEval]_vars

(***************************************************************************)
(* Claims about one evaluator call (specification Spec).                   *)
(***************************************************************************)
Frames == {cf, rf}
Count(cs, x) == Cardinality({k \in 1..Len(cs) : cs[k] = x})
Constant(v) == [i \in 1..Len(t) |-> v]

\* C1: with T <= 0 or N < 0 an evaluator call ends in a parameter error raised
\* before any accumulation: it never fetches a coefficient, never accumulates
\* and never returns a result.
C1_InvalidParameterRaised ==
    (T <= 0 \/ N < 0) =>
        \A fr \in Frames :
            /\ fr.pc \in {"idle", "called", "raised"}
            /\ fr.calls = <<>>
            /\ fr.pc = "raised" => fr.exc.call = <<"", 0>>

\* C2: with N >= 0 no coefficient function is called twice with the same index;
\* a completed complex_fourier has called c exactly once for each index of
\* -N..N (2N+1 calls), a completed real_fourier has called a once for each index
\* of 0..N and b once for each index of 1..N, whatever the number of points.
C2_CoefficientsFetchedOnce ==
    N >= 0 =>
        /\ \A fr \in Frames : \A k \in 1..Len(fr.calls) : Count(fr.calls, fr.calls[k]) = 1
        /\ cf.pc = "returned" =>
              /\ Len(cf.calls) = 2 * N + 1
              /\ \A n \in Idx(N) : Count(cf.calls, <<"c", n>>) = 1
        /\ rf.pc = "returned" =>
              /\ Len(rf.calls) = 2 * N + 1
              /\ \A n \in 0..N : Count(rf.calls, <<"a", n>>) = 1
              /\ \A n \in 1..N : Count(rf.calls, <<"b", n>>) = 1

C2_Witness ==
    /\ N = 2 /\ Len(t) = 2
    /\ cf.pc = "returned"
    /\ cf.calls = << <<"c", 0>>, <<"c", 1>>, <<"c", -1>>, <<"c", 2>>, <<"c", -2>> >>

\* C3: real_fourier never calls b with index 0: every call of b has an index of
\* 1..N.
C3_BZeroNeverQueried ==
    \A k \in 1..Len(rf.calls) :
        rf.calls[k][1] = "b" => rf.calls[k][2] # 0 /\ rf.calls[k][2] \in 1..N

C3_Witness ==
    /\ rf.pc = "returned" /\ N >= 1
    /\ Count(rf.calls, <<"b", 1>>) = 1
    /\ b[0].kind # "num"

\* C4: with N = 0 and T > 0, complex_fourier returns the real part of c(0) at
\* every sample point and real_fourier returns a(0)/2 at every sample point, and
\* no coefficient of another index has been fetched.
C4_OrderZeroIsConstant ==
    (N = 0 /\ T > 0) =>
        /\ cf.pc = "returned" =>
              /\ cf.result = Constant(<<c[0].v[1], 0>>)
              /\ cf.calls = << <<"c", 0>> >>
        /\ rf.pc = "returned" =>
              /\ rf.result = Constant(Half(a[0].v))
              /\ rf.calls = << <<"a", 0>> >>

C4_Witness ==
    /\ N = 0 /\ T > 0 /\ Len(t) = 2
    /\ cf.pc = "returned"
    /\ c[0].v = <<2, 1>> /\ c[1].v # <<0, 0>>
    /\ cf.result = << <<2, 0>>, <<2, 0>> >>

\* The series value at one point x, term by term.
RECURSIVE CSeriesAt(_, _)
CSeriesAt(x, n) ==
    IF n = 0 THEN c[0].v
    ELSE CAdd(CSeriesAt(x, n - 1),
              CAdd(CMul(c[n].v, Exp(n * Omega(T) * x)),
                   CMul(c[-n].v, Exp(-(n * Omega(T) * x)))))

RECURSIVE RSeriesAt(_, _)
RSeriesAt(x, n) ==
    IF n = 0 THEN Half(a[0].v)
    ELSE CAdd(RSeriesAt(x, n - 1),
              CAdd(CMul(a[n].v, <<Cos(n * Omega(T) * x), 0>>),
                   CMul(b[n].v, <<Sin(n * Omega(T) * x), 0>>)))

\* C5: with T > 0 and N >= 0 the result has one entry per sample point, and
\* entry i is the series value at t[i] alone.
C5_ResultMatchesDomain ==
    (T > 0 /\ N >= 0) =>
        /\ cf.pc = "returned" =>
              /\ Len(cf.result) = Len(t)
              /\ \A i \in 1..Len(t) : cf.result[i] = <<CSeriesAt(t[i], N)[1], 0>>
        /\ rf.pc = "returned" =>
              /\ Len(rf.result) = Len(t)
              /\ \A i \in 1..Len(t) : rf.result[i] = RSeriesAt(t[i], N)

C5_Witness ==
    /\ T = 4 /\ N = 2 /\ t = <<3, 1>>
    /\ rf.pc = "returned"
    /\ rf.result[1] # rf.result[2]

CSub(x, y) == <<x[1] - y[1], x[2] - y[2]>>
SymA(cc) == [n \in 0..(MaxN + 1) |-> Num(CAdd(cc[n].v, cc[-n].v))]
SymB(cc) == [n \in 0..(MaxN + 1) |-> Num(CMul(<<0, 1>>, CSub(cc[n].v, cc[-n].v)))]

TermsSym == {"zero", "one", "2n", "jn", "1+jn", "j"}
\* The functions of the family, and each with c(MaxN) replaced by i.
SymFunctions ==
    UNION {{Lambda(v0, e, Idx(MaxN + 1)),
            FailAt(Lambda(v0, e, Idx(MaxN + 1)), MaxN, Num(<<0, 1>>))} :
               v0 \in Values0, e \in TermsSym}

InitSym ==
    /\ InitArgs
    /\ c \in SymFunctions
    /\ a = SymA(c) /\ b = SymB(c)
    /\ cf = Frame("called") /\ rf = Frame("called")
    /\ values = <<>> /\ gui = GuiIdle

SpecSym == InitSym /\ [][NextEval]_vars

Conj(x) == <<x[1], -x[2]>>
ConjugateOn(S) == \A n \in S : c[-n].v = Conj(c[n].v)
BothReturned == cf.pc = "returned" /\ rf.pc = "returned"

\* C7 as stated: if c(n) and c(-n) are conjugates for all n in 1..N, then for
\* T > 0 the result of complex_fourier equals, at every sample point, the result
\* of real_fourier with a(n) = c(n) + c(-n), b(n) = i (c(n) - c(-n)).
C7_AgreesWhenConjugateFromOne ==
    (T > 0 /\ N >= 0 /\ BothReturned /\ a = SymA(c) /\ b = SymB(c)
       /\ ConjugateOn(1..N)) => cf.result = rf.result

\* C7 as amended: the same with c(n) and c(-n) conjugates for all n in 0..N,
\* that is with c(0) real as well.
C7_AgreesWhenConjugateFromZero ==
    (T > 0 /\ N >= 0 /\ BothReturned /\ a = SymA(c) /\ b = SymB(c)
       /\ ConjugateOn(0..N)) => cf.result = rf.result

C7_Witness ==
    /\ T = 4 /\ N = 2 /\ t = <<1, 3>>
    /\ BothReturned /\ a = SymA(c) /\ b = SymB(c)
    /\ ConjugateOn(0..N)
    /\ c[0].v = <<2, 0>> /\ c[1].v = <<1, 1>>
    /\ cf.result = rf.result
    /\ cf.result = << <<-2, 0>>, <<2, 0>> >>

(***************************************************************************)
(* complex_fourier on the functions that are zero off index 0, up to a     *)
(* higher truncation order.                                                *)
(***************************************************************************)
ConstDomains == Domains \cup {<<0, 2, 4>>}
ConstFunctions ==
    {Lambda(v0, "zero", Idx(MaxNConst + 1)) : v0 \in Values0 \cup {<<1, 0>>}}

InitConst ==
    /\ N \in 0..MaxNConst
    /\ t \in ConstDomains
    /\ T \in {p \in Periods : p > 0}
    /\ c \in ConstFunctions
    /\ a = NoFunction /\ b = NoFunction
    /\ cf = Frame("called") /\ rf = Frame("idle")
    /\ values = <<>> /\ gui = GuiIdle

NextCF == CF_Omega \/ CF_Init \/ CF_Loop \/ CF_Return

SpecConst == InitConst /\ [][NextCF]_vars

\* C8: when c(n) = 0 for every n # 0, complex_fourier returns the real part of
\* c(0) at every sample point, for every N >= 0, T > 0 and domain; with c(0) = 1,
\* T one full turn, the domain <<0, T/2, T>> and N = 5 it returns <<1, 1, 1>>.
C8_ZeroTermsGiveConstant ==
    (N >= 0 /\ T > 0 /\ cf.pc = "returned"
       /\ \A n \in (DOMAIN c) \ {0} : c[n] = Num(<<0, 0>>)) =>
        /\ cf.result = Constant(<<c[0].v[1], 0>>)
        /\ (c[0].v = <<1, 0>> /\ T = 4 /\ t = <<0, 2, 4>> /\ N = 5) =>
              cf.result = << <<1, 0>>, <<1, 0>>, <<1, 0>> >>

C8_Witness ==
    /\ c[0].v = <<1, 0>> /\ T = 4 /\ t = <<0, 2, 4>> /\ N = 5
    /\ cf.pc = "returned" /\ cf.n = 6
    /\ Len(cf.calls) = 11
    /\ cf.result = << <<1, 0>>, <<1, 0>>, <<1, 0>> >>

(***************************************************************************)
(* The input form: check_input, read_input and the call in main.           *)
(* A text is a sequence of characters.                                     *)
(***************************************************************************)
MaxText == 3
Chars == {"i", "j", "*", "2", "p"}
Texts == UNION {[1..m -> Chars] : m \in 0..MaxText}

\* str(math.pi)
PiText == <<"3", ".", "1", "4", "1", "5", "9", "2", "6", "5", "3", "5", "8", "9",
            "7", "9", "3">>

\* sub in s
Contains(s, sub) ==
    \E k \in 1..(Len(s) - Len(sub) + 1) : SubSeq(s, k, k + Len(sub) - 1) = sub

\* s.replace(old, new): the occurrences of old, left to right, not overlapping
RECURSIVE Replace(_, _, _)
Replace(s, old, new) ==
    IF Len(s) < Len(old) THEN s
    ELSE IF SubSeq(s, 1, Len(old)) = old
         THEN new \o Replace(SubSeq(s, Len(old) + 1, Len(s)), old, new)
         ELSE <<s[1]>> \o Replace(Tail(s), old, new)

\* The substitutions of lines 81-89, in the order the loops make them.
PiPasses ==
    << <<(<<"p", "i">>), PiText>>, <<(<<"P", "I">>), PiText>>,
       <<(<<"P", "i">>), PiText>>, <<(<<"GREEK_PI">>), PiText>> >>
FactorPasses ==
    << <<(<<"*", "i">>), (<<"*", "1", "j">>)>>, <<(<<"*", "j">>), (<<"*", "1", "j">>)>> >>
UnitPasses ==
    << <<(<<"j">>), (<<"1", "j">>)>>, <<(<<"i">>), (<<"1", "j">>)>> >>
Passes == PiPasses \o FactorPasses \o UnitPasses

RECURSIVE ApplyPasses(_, _, _)
ApplyPasses(s, ps, k) ==
    IF k > Len(ps) THEN s
    ELSE ApplyPasses(IF Contains(s, ps[k][1]) THEN Replace(s, ps[k][1], ps[k][2]) ELSE s,
                     ps, k + 1)

Prepare(s) == ApplyPasses(s, Passes, 1)

\* ne.evaluate(text) returns (TRUE) or raises: the texts over the characters
\* here that are products and powers of number literals.
Digits == {"0", "1", "2", "3", "4", "5", "6", "7", "8", "9"}
IsNumber(s) ==
    /\ s # <<>>
    /\ LET body == IF s[Len(s)] = "j" THEN SubSeq(s, 1, Len(s) - 1) ELSE s
       IN  /\ body # <<>> /\ body # <<".">>
           /\ \A k \in 1..Len(body) : body[k] \in Digits \cup {"."}
           /\ Cardinality({k \in 1..Len(body) : body[k] = "."}) <= 1
Evaluates(s) ==
    /\ s # <<>> /\ s[1] # "*" /\ s[Len(s)] # "*"
    /\ \A k \in 1..(Len(s) - 2) : ~(s[k] = "*" /\ s[k + 1] = "*" /\ s[k + 2] = "*")
    /\ \A i \in 1..Len(s) : \A j \in i..Len(s) :
          ( /\ i = 1 \/ s[i - 1] = "*"
            /\ j = Len(s) \/ s[j + 1] = "*"
            /\ \A k \in i..j : s[k] # "*" ) => IsNumber(SubSeq(s, i, j))

Real == <<"R", "e", "a", "l">>
Complex == <<"C", "o", "m", "p", "l", "e", "x">>
None == <<"None">>

RealKeys == <<"a_0", "a_n", "b_n", "T_r", "I0_r", "I1_r">>
ComplexKeys == <<"c_0", "c_n", "T_c", "I0_c", "I1_c">>
Range(q) == {q[k] : k \in 1..Len(q)}
Keys == Range(RealKeys) \cup Range(ComplexKeys) \cup {"tab_group"}

\* check_input(values): the values as rewritten in place, and what it returns.
check_input(vals) ==
    LET prepared == [k \in DOMAIN vals |-> Prepare(vals[k])]
        mode == prepared["tab_group"]
        checked == IF mode = Real THEN RealKeys
                   ELSE IF mode = Complex THEN ComplexKeys ELSE <<>>
    IN  [values |-> prepared,
         returns |-> IF \E k \in Range(checked) : ~Evaluates(prepared[k])
                     THEN None ELSE mode]

\* What the window can hold: a tab, one field with any text, "2" in the others.
FreeKeys == {"a_n", "c_n"}
Forms ==
    {[k \in Keys |-> IF k = "tab_group" THEN tab ELSE IF k = free THEN s ELSE <<"2">>] :
        tab \in {Real, Complex}, free \in FreeKeys, s \in Texts}

ReturnNone == [kind |-> "None", mode |-> None, values |-> <<>>]
ReturnTuple(mode, vals) == [kind |-> "tuple", mode |-> mode, values |-> vals]

\* lines 158-160: window.read() and the exit on Cancel or on a closed window
GUI_Read ==
    /\ gui.pc = "read"
    /\ \E event \in {"Ok", "Cancel", "Closed"}, form \in Forms :
          /\ values' = IF event = "Closed" THEN <<>> ELSE form
          /\ gui' = IF event = "Ok"
                    THEN [gui EXCEPT !.pc = "check", !.form = form]
                    ELSE [gui EXCEPT !.pc = "returned", !.form = form, !.ret = ReturnNone]
    /\ UNCHANGED evalVars

\* lines 163-164 and 170-172: check_input, and the return of an accepted input
GUI_Check ==
    /\ gui.pc = "check"
    /\ LET r == check_input(values)
       IN  /\ values' = r.values
           /\ gui' = IF r.returns = None
                     THEN [gui EXCEPT !.pc = "popup"]
                     ELSE [gui EXCEPT !.pc = "returned",
                                      !.ret = ReturnTuple(r.returns, r.values)]
    /\ UNCHANGED evalVars

\* lines 165-169: the popup on a rejected input
GUI_Popup ==
    /\ gui.pc = "popup"
    /\ \E invalid \in {"OK", "Cancel", "Closed"} :
          gui' = IF invalid = "Cancel"
                 THEN [gui EXCEPT !.pc = "returned", !.ret = ReturnNone]
                 ELSE [gui EXCEPT !.pc = "read"]
    /\ UNCHANGED <<values>>
    /\ UNCHANGED evalVars

\* line 178: mode, values = read_input(window)
Main_Unpack ==
    /\ gui.pc = "returned"
    /\ gui' = IF gui.ret.kind = "tuple"
              THEN [gui EXCEPT !.pc = "main", !.mode = gui.ret.mode]
              ELSE [gui EXCEPT !.pc = "main_raised"]
    /\ values' = IF gui.ret.kind = "tuple" THEN gui.ret.values ELSE values
    /\ UNCHANGED evalVars

InitGui ==
    /\ c = NoFunction /\ a = NoFunction /\ b = NoFunction
    /\ N = 0 /\ t = <<>> /\ T = 4
    /\ cf = Frame("idle") /\ rf = Frame("idle")
    /\ values = <<>>
    /\ gui = [pc |-> "read", form |-> <<>>, ret |-> ReturnNone, mode |-> None]

NextGui == GUI_Read \/ GUI_Check \/ GUI_Popup \/ Main_Unpack

SpecGui == InitGui /\ [][NextGui]_vars

\* Each i and each j replaced by 1j, in one pass.
RECURSIVE UnitsReplaced(_)
UnitsReplaced(s) ==
    IF s = <<>> THEN <<>>
    ELSE (IF s[1] \in {"i", "j"} THEN <<"1", "j">> ELSE <<s[1]>>) \o UnitsReplaced(Tail(s))

InputChecked ==
    \/ gui.pc = "popup"
    \/ gui.pc \in {"returned", "main"} /\ gui.ret.kind = "tuple"

\* C9: after check_input has run, every field holds its text with each i and j
\* (and so each *i and *j) replaced by 1j (by *1j) and nothing else inserted.
C9_ImaginaryUnitSubstituted ==
    InputChecked =>
        \A k \in DOMAIN values :
            values[k] = UnitsReplaced(ApplyPasses(gui.form[k], PiPasses, 1))

\* C10: read_input returns a tuple (mode, values) with mode 'Complex' or 'Real',
\* which main unpacks.
C10_ReadInputReturnsTuple ==
    /\ gui.pc \in {"returned", "main", "main_raised"} =>
          gui.ret.kind = "tuple" /\ gui.ret.mode \in {Complex, Real}
    /\ gui.pc # "main_raised"

====
